---- MODULE Spec2Model ----
(***************************************************************************)
(* Model of package cfg (src/cfg.go): Load fills a caller's struct from    *)
(* the first <name>.yaml found on the search paths and then overrides the  *)
(* fields that carry an `env` tag from the process environment.            *)
(*                                                                         *)
(* Go strings are modelled as sequences of one-character strings, so that  *)
(* strings.ToUpper, strings.TrimSuffix and the strconv parsers are         *)
(* computed character by character.                                        *)
(***************************************************************************)
EXTENDS Integers, Sequences, FiniteSets, TLC

VARIABLES
    p,          \* the *parameters object the options are applied to
    optHist,    \* ghost: the WithEnvPrefix calls applied to p, [raw, out] each
    fv,         \* a reflect.Value of one struct field: [kind, val]
    fvBefore,   \* ghost: fv as it was before the last setFieldFromEnv
    envValue,   \* the string last passed to setFieldFromEnv
    called,     \* whether setFieldFromEnv has been called
    ferr,       \* the error setFieldFromEnv returned
    env,        \* the process environment: a function from names to values
    cfg,        \* the caller's struct, as a reflect.Value: [type, val, path]
    err,        \* the error the last call returned
    io,         \* ghost: the file reads and environment lookups of the last call
    cfgBefore,  \* ghost: cfg as it was when the last call began
    passes,     \* ghost: environment passes run since the environment last changed
    prev,       \* ghost: [cfg, err] as the pass before the last one left them
    disk,       \* the file system: a function from file names to file contents
    arg,        \* ghost: the cfg argument of the last Load
    loads       \* ghost: the number of Load calls made

prefixVars == <<p, optHist>>
parseVars == <<fv, fvBefore, envValue, called, ferr>>
loadVars == <<env, cfg, err, io, cfgBefore, passes, prev>>
callVars == <<disk, arg, loads>>
vars == <<prefixVars, parseVars, loadVars, callVars>>

----------------------------------------------------------------------------
(* Strings *)

LowerLetters == <<"a","b","c","d","e","f","g","h","i","j","k","l","m",
                  "n","o","p","q","r","s","t","u","v","w","x","y","z">>
UpperLetters == <<"A","B","C","D","E","F","G","H","I","J","K","L","M",
                  "N","O","P","Q","R","S","T","U","V","W","X","Y","Z">>

\* unicode.ToUpper on one (ASCII) character
UpperChar(c) ==
    IF \E i \in 1..26 : LowerLetters[i] = c
    THEN UpperLetters[CHOOSE i \in 1..26 : LowerLetters[i] = c]
    ELSE c

\* strings.ToUpper
ToUpper(s) == [i \in 1..Len(s) |-> UpperChar(s[i])]

\* strings.HasSuffix
HasSuffix(s, suffix) ==
    /\ Len(s) >= Len(suffix)
    /\ SubSeq(s, Len(s) - Len(suffix) + 1, Len(s)) = suffix

\* strings.TrimSuffix: removes the suffix once, when present
TrimSuffix(s, suffix) ==
    IF HasSuffix(s, suffix) THEN SubSeq(s, 1, Len(s) - Len(suffix)) ELSE s

\* all sequences over S of length at most n
RECURSIVE SeqsUpTo(_, _)
SeqsUpTo(S, n) ==
    IF n = 0 THEN {<<>>}
    ELSE LET shorter == SeqsUpTo(S, n - 1)
         IN  shorter \cup {Append(s, c) : s \in shorter, c \in S}

----------------------------------------------------------------------------
(* Options and parameters *)

defaultParameters ==
    [paths     |-> <<".", "./config">>,
     name      |-> "config",
     envPrefix |-> <<"A","P","P">>]

\* a variant of WithEnvPrefix that forgets strings.ToUpper
WithEnvPrefixNoUpper(prefix, o) ==
    [o EXCEPT !.envPrefix = TrimSuffix(prefix, <<"_">>)]

\* WithEnvPrefix(prefix) applied to the parameters o
WithEnvPrefix(prefix, o) ==
    [o EXCEPT !.envPrefix = TrimSuffix(ToUpper(prefix), <<"_">>)]

\* WithPaths(paths...) applied to o
WithPaths(paths, o) == [o EXCEPT !.paths = paths]

\* WithName(name) applied to o
WithName(name, o) == [o EXCEPT !.name = name]

----------------------------------------------------------------------------
(* 64-bit machine integers, as four 16-bit limbs, least significant first. *)
(* An int64 is its two's complement bit pattern.                           *)

Limb == 2^16
Zero64 == <<0, 0, 0, 0>>

\* n * 10 + d on uint64, with the overflow the multiplication would lose
MulAdd10(n, d) ==
    LET a1 == n[1] * 10 + d
        a2 == n[2] * 10 + (a1 \div Limb)
        a3 == n[3] * 10 + (a2 \div Limb)
        a4 == n[4] * 10 + (a3 \div Limb)
    IN  [n        |-> <<a1 % Limb, a2 % Limb, a3 % Limb, a4 % Limb>>,
         overflow |-> a4 \div Limb > 0]

\* -n on int64 (two's complement: invert and add one)
Neg64(n) ==
    LET b1 == (Limb - 1 - n[1]) + 1
        b2 == (Limb - 1 - n[2]) + (b1 \div Limb)
        b3 == (Limb - 1 - n[3]) + (b2 \div Limb)
        b4 == (Limb - 1 - n[4]) + (b3 \div Limb)
    IN  <<b1 % Limb, b2 % Limb, b3 % Limb, b4 % Limb>>

\* the limb holding the top bit of a bitSize-bit integer, and that limb's size
TopLimb(bitSize) == (bitSize + 15) \div 16
TopSize(bitSize) == IF bitSize = 8 THEN 256 ELSE Limb

\* n <= 1<<bitSize - 1
FitsUnsigned(n, bitSize) ==
    /\ \A i \in 1..4 : i > TopLimb(bitSize) => n[i] = 0
    /\ n[TopLimb(bitSize)] < TopSize(bitSize)

\* n >= 1<<(bitSize-1), for an n that FitsUnsigned
AtLeastCutoff(n, bitSize) ==
    n[TopLimb(bitSize)] >= TopSize(bitSize) \div 2

\* n > 1<<(bitSize-1), for an n that FitsUnsigned
AboveCutoff(n, bitSize) ==
    \/ n[TopLimb(bitSize)] > TopSize(bitSize) \div 2
    \/ /\ n[TopLimb(bitSize)] = TopSize(bitSize) \div 2
       /\ \E i \in 1..(TopLimb(bitSize) - 1) : n[i] # 0

\* the conversion int8(x), int16(x), ..., uint8(x), ...: the low bitSize bits
Truncate(n, bitSize) ==
    [i \in 1..4 |->
        IF i < TopLimb(bitSize) THEN n[i]
        ELSE IF i = TopLimb(bitSize) THEN n[i] % TopSize(bitSize)
        ELSE 0]

----------------------------------------------------------------------------
(* package strconv, as cfg.go calls it *)

DigitChars == <<"0", "1", "2", "3", "4", "5", "6", "7", "8", "9">>
IsDigit(c) == \E i \in 1..10 : DigitChars[i] = c
DigitVal(c) == (CHOOSE i \in 1..10 : DigitChars[i] = c) - 1

\* the digit loop of strconv.ParseUint in base 10, from character i on
RECURSIVE ParseUintFrom(_, _, _, _)
ParseUintFrom(s, i, n, bitSize) ==
    IF i > Len(s) THEN [n |-> n, err |-> "nil"]
    ELSE IF ~IsDigit(s[i]) THEN [n |-> Zero64, err |-> "syntax"]
    ELSE LET m == MulAdd10(n, DigitVal(s[i]))
         IN  IF m.overflow \/ ~FitsUnsigned(m.n, bitSize)
             THEN [n |-> Zero64, err |-> "range"]
             ELSE ParseUintFrom(s, i + 1, m.n, bitSize)

\* strconv.ParseUint(s, 10, bitSize): no sign, no underscore, no prefix
ParseUint(s, bitSize) ==
    IF s = <<>> THEN [n |-> Zero64, err |-> "syntax"]
    ELSE ParseUintFrom(s, 1, Zero64, bitSize)

\* strconv.ParseInt(s, 10, bitSize)
ParseInt(s, bitSize) ==
    IF s = <<>> THEN [n |-> Zero64, err |-> "syntax"]
    ELSE LET neg  == s[1] = "-"
             body == IF s[1] \in {"+", "-"} THEN Tail(s) ELSE s
             un   == ParseUint(body, bitSize)
         IN  IF un.err # "nil" THEN [n |-> Zero64, err |-> un.err]
             ELSE IF ~neg /\ AtLeastCutoff(un.n, bitSize)
                  THEN [n |-> Zero64, err |-> "range"]
             ELSE IF neg /\ AboveCutoff(un.n, bitSize)
                  THEN [n |-> Zero64, err |-> "range"]
             ELSE [n |-> IF neg THEN Neg64(un.n) ELSE un.n, err |-> "nil"]

\* strconv.ParseBool
ParseBool(s) ==
    IF s \in {<<"1">>, <<"t">>, <<"T">>, <<"T","R","U","E">>,
              <<"t","r","u","e">>, <<"T","r","u","e">>}
    THEN [b |-> TRUE, err |-> "nil"]
    ELSE IF s \in {<<"0">>, <<"f">>, <<"F">>, <<"F","A","L","S","E">>,
                   <<"f","a","l","s","e">>, <<"F","a","l","s","e">>}
    THEN [b |-> FALSE, err |-> "nil"]
    ELSE [b |-> FALSE, err |-> "syntax"]

\* the value of a run of decimal digits, capped as strconv caps exponents
RECURSIVE DecimalCapped(_, _, _)
DecimalCapped(s, i, acc) ==
    IF i > Len(s) THEN acc
    ELSE DecimalCapped(s, i + 1,
                       IF acc < 10000 THEN acc * 10 + DigitVal(s[i]) ELSE acc)

\* readFloat's mantissa loop: the first index after the digits and the one "."
RECURSIVE MantissaEnd(_, _, _)
MantissaEnd(s, i, sawdot) ==
    IF i > Len(s) THEN i
    ELSE IF IsDigit(s[i]) THEN MantissaEnd(s, i + 1, sawdot)
    ELSE IF s[i] = "." /\ ~sawdot THEN MantissaEnd(s, i + 1, TRUE)
    ELSE i

RECURSIVE StripLeadingZeros(_)
StripLeadingZeros(d) ==
    IF d # <<>> /\ d[1] = "0" THEN StripLeadingZeros(Tail(d)) ELSE d

RECURSIVE TrailingZeros(_)
TrailingZeros(d) ==
    IF d # <<>> /\ d[Len(d)] = "0"
    THEN 1 + TrailingZeros(SubSeq(d, 1, Len(d) - 1)) ELSE 0

FloatZero == [class |-> "num", neg |-> FALSE, mant |-> <<>>, exp |-> 0]
FloatSyntax == [f |-> FloatZero, err |-> "syntax"]

\* the float64 nearest to (-1)^neg * digits * 10^exp, named by that decimal in
\* lowest terms (two decimals of at most 15 digits name different float64s);
\* beyond the float64 range the result is an infinity with a range error
DecimalFloat(neg, digits, exp) ==
    LET lead == StripLeadingZeros(digits)
        tz   == TrailingZeros(lead)
        mant == SubSeq(lead, 1, Len(lead) - tz)
        e    == exp + tz
        adj  == Len(mant) + e - 1
    IN  IF mant = <<>>
        THEN [f |-> [FloatZero EXCEPT !.neg = neg], err |-> "nil"]
        ELSE IF adj > 308 \/ (adj = 308 /\ DigitVal(mant[1]) >= 2)
        THEN [f |-> [class |-> "inf", neg |-> neg, mant |-> <<>>, exp |-> 0],
              err |-> "range"]
        ELSE [f |-> [class |-> "num", neg |-> neg, mant |-> mant, exp |-> e],
              err |-> "nil"]

LowerChar(c) ==
    IF \E i \in 1..26 : UpperLetters[i] = c
    THEN LowerLetters[CHOOSE i \in 1..26 : UpperLetters[i] = c]
    ELSE c
ToLower(s) == [i \in 1..Len(s) |-> LowerChar(s[i])]

\* strconv.ParseFloat(s, 64) on decimal literals and on the words inf,
\* infinity and nan; hexadecimal literals and "_" digit separators are not
\* among the inputs of this model
ParseFloat(s) ==
    LET signed == s # <<>> /\ s[1] \in {"+", "-"}
        neg    == s # <<>> /\ s[1] = "-"
        i0     == IF signed THEN 2 ELSE 1
        word   == ToLower(SubSeq(s, i0, Len(s)))
        j      == MantissaEnd(s, i0, FALSE)
        m      == SubSeq(s, i0, j - 1)
        dot    == IF \E k \in 1..Len(m) : m[k] = "."
                  THEN CHOOSE k \in 1..Len(m) : m[k] = "." ELSE Len(m) + 1
        int    == SubSeq(m, 1, dot - 1)
        frac   == SubSeq(m, dot + 1, Len(m))
        hasExp == j <= Len(s) /\ s[j] \in {"e", "E"}
        esign  == j + 1 <= Len(s) /\ s[j + 1] \in {"+", "-"}
        eneg   == j + 1 <= Len(s) /\ s[j + 1] = "-"
        k0     == IF esign THEN j + 2 ELSE j + 1
        edig   == SubSeq(s, k0, Len(s))
        e      == DecimalCapped(edig, 1, 0)
    IN  IF word \in {<<"i","n","f">>, <<"i","n","f","i","n","i","t","y">>}
        THEN [f |-> [class |-> "inf", neg |-> neg, mant |-> <<>>, exp |-> 0],
              err |-> "nil"]
        ELSE IF ~signed /\ word = <<"n","a","n">>
        THEN [f |-> [class |-> "nan", neg |-> FALSE, mant |-> <<>>, exp |-> 0],
              err |-> "nil"]
        ELSE IF int \o frac = <<>> THEN FloatSyntax
        ELSE IF ~hasExp
        THEN IF j <= Len(s) THEN FloatSyntax
             ELSE DecimalFloat(neg, int \o frac, 0 - Len(frac))
        ELSE IF edig = <<>> \/ \E k \in 1..Len(edig) : ~IsDigit(edig[k])
        THEN FloatSyntax
        ELSE DecimalFloat(neg, int \o frac,
                          (IF eneg THEN 0 - e ELSE e) - Len(frac))

----------------------------------------------------------------------------
(* reflect: kinds, values and the setters of a field *)

SignedKinds   == {"int", "int8", "int16", "int32", "int64"}
UnsignedKinds == {"uint", "uint8", "uint16", "uint32", "uint64"}
FloatKinds    == {"float32", "float64"}
ScalarKinds   == {"string", "bool"} \cup SignedKinds \cup UnsignedKinds
                    \cup FloatKinds

\* reflect.Type.Bits of an integer kind; int and uint are 64 bits wide on the
\* 64-bit platforms this model is of
Bits(kind) ==
    CASE kind \in {"int8", "uint8"}   -> 8
      [] kind \in {"int16", "uint16"} -> 16
      [] kind \in {"int32", "uint32"} -> 32
      [] OTHER                        -> 64

\* reflect.Value.SetInt and SetUint: the value converted to the field's type
SetInt(kind, x) == Truncate(x, Bits(kind))

\* reflect.Value.SetFloat: the value converted to the field's type
SetFloat(kind, x) == IF kind = "float32" THEN [f32 |-> x] ELSE x

NoError == [cause |-> "nil", field |-> <<>>, envVar |-> <<>>, stage |-> ""]
Failure(cause) ==
    [cause |-> cause, field |-> <<>>, envVar |-> <<>>, stage |-> ""]

\* a variant of setFieldFromEnv that appends to a string field instead of
\* replacing it
setFieldFromEnvAppend(field, value) ==
    CASE field.kind = "string" ->
           [field |-> [field EXCEPT !.val = field.val \o value], err |-> NoError]
      [] field.kind \in SignedKinds ->
           LET r == ParseInt(value, 64)
           IN  IF r.err # "nil" THEN [field |-> field, err |-> Failure(r.err)]
               ELSE [field |-> [field EXCEPT !.val = SetInt(field.kind, r.n)],
                     err |-> NoError]
      [] field.kind \in UnsignedKinds ->
           LET r == ParseUint(value, 64)
           IN  IF r.err # "nil" THEN [field |-> field, err |-> Failure(r.err)]
               ELSE [field |-> [field EXCEPT !.val = SetInt(field.kind, r.n)],
                     err |-> NoError]
      [] field.kind \in FloatKinds ->
           LET r == ParseFloat(value)
           IN  IF r.err # "nil" THEN [field |-> field, err |-> Failure(r.err)]
               ELSE [field |-> [field EXCEPT !.val = SetFloat(field.kind, r.f)],
                     err |-> NoError]
      [] field.kind = "bool" ->
           LET r == ParseBool(value)
           IN  IF r.err # "nil" THEN [field |-> field, err |-> Failure(r.err)]
               ELSE [field |-> [field EXCEPT !.val = r.b], err |-> NoError]
      [] OTHER -> [field |-> field, err |-> Failure("unsupported")]

\* a variant of setFieldFromEnv that leaves a field of an unsupported kind
\* alone without an error
setFieldFromEnvIgnoring(field, value) ==
    CASE field.kind = "string" ->
           [field |-> [field EXCEPT !.val = value], err |-> NoError]
      [] field.kind \in SignedKinds ->
           LET r == ParseInt(value, 64)
           IN  IF r.err # "nil" THEN [field |-> field, err |-> Failure(r.err)]
               ELSE [field |-> [field EXCEPT !.val = SetInt(field.kind, r.n)],
                     err |-> NoError]
      [] field.kind \in UnsignedKinds ->
           LET r == ParseUint(value, 64)
           IN  IF r.err # "nil" THEN [field |-> field, err |-> Failure(r.err)]
               ELSE [field |-> [field EXCEPT !.val = SetInt(field.kind, r.n)],
                     err |-> NoError]
      [] field.kind \in FloatKinds ->
           LET r == ParseFloat(value)
           IN  IF r.err # "nil" THEN [field |-> field, err |-> Failure(r.err)]
               ELSE [field |-> [field EXCEPT !.val = SetFloat(field.kind, r.f)],
                     err |-> NoError]
      [] field.kind = "bool" ->
           LET r == ParseBool(value)
           IN  IF r.err # "nil" THEN [field |-> field, err |-> Failure(r.err)]
               ELSE [field |-> [field EXCEPT !.val = r.b], err |-> NoError]
      [] OTHER -> [field |-> field, err |-> NoError]

\* setFieldFromEnv(field, value): the field after the call and the error
setFieldFromEnv(field, value) ==
    CASE field.kind = "string" ->
           [field |-> [field EXCEPT !.val = value], err |-> NoError]
      [] field.kind \in SignedKinds ->
           LET r == ParseInt(value, 64)
           IN  IF r.err # "nil" THEN [field |-> field, err |-> Failure(r.err)]
               ELSE [field |-> [field EXCEPT !.val = SetInt(field.kind, r.n)],
                     err |-> NoError]
      [] field.kind \in UnsignedKinds ->
           LET r == ParseUint(value, 64)
           IN  IF r.err # "nil" THEN [field |-> field, err |-> Failure(r.err)]
               ELSE [field |-> [field EXCEPT !.val = SetInt(field.kind, r.n)],
                     err |-> NoError]
      [] field.kind \in FloatKinds ->
           LET r == ParseFloat(value)
           IN  IF r.err # "nil" THEN [field |-> field, err |-> Failure(r.err)]
               ELSE [field |-> [field EXCEPT !.val = SetFloat(field.kind, r.f)],
                     err |-> NoError]
      [] field.kind = "bool" ->
           LET r == ParseBool(value)
           IN  IF r.err # "nil" THEN [field |-> field, err |-> Failure(r.err)]
               ELSE [field |-> [field EXCEPT !.val = r.b], err |-> NoError]
      [] OTHER -> [field |-> field, err |-> Failure("unsupported")]

----------------------------------------------------------------------------
(* The environment pass *)

\* ghost: one entry of the log of option applications, file reads and
\* environment lookups a call makes
Event(op, name, path, file) ==
    [op |-> op, name |-> name, path |-> path, file |-> file]

\* os.LookupEnv: the empty name is never set (os.Setenv refuses it)
LookupEnv(name) ==
    IF name # <<>> /\ name \in DOMAIN env
    THEN [value |-> env[name], exists |-> TRUE]
    ELSE [value |-> <<>>, exists |-> FALSE]

\* a variant of getEnvVarName that falls back to the field's name
getEnvVarNameAuto(structField, envPrefix) ==
    LET envTag == IF structField.tag # <<>> THEN structField.tag
                  ELSE structField.name
    IN  IF envPrefix # <<>> THEN envPrefix \o <<"_">> \o ToUpper(envTag)
        ELSE ToUpper(envTag)

\* a variant of getEnvVarName that forgets strings.ToUpper
getEnvVarNameNoUpper(structField, envPrefix) ==
    IF structField.tag # <<>>
    THEN IF envPrefix # <<>> THEN envPrefix \o <<"_">> \o structField.tag
         ELSE structField.tag
    ELSE <<>>

\* getEnvVarName(field, envPrefix)
getEnvVarName(structField, envPrefix) ==
    IF structField.tag # <<>>
    THEN LET envName == ToUpper(structField.tag)
         IN  IF envPrefix # <<>> THEN envPrefix \o <<"_">> \o envName
             ELSE envName
    ELSE <<>>

\* fmt.Errorf("set field %s from env %s: %w", structField.Name, envVar, err)
SetFieldError(structField, envVar, cause) ==
    [cause |-> cause.cause, field |-> structField.name, envVar |-> envVar,
     stage |-> ""]

RECURSIVE loadStructFromEnv(_, _)
RECURSIVE loadFieldsFromEnv(_, _, _, _)

\* the loop of loadStructFromEnv from field i on; log holds the lookups so far
loadFieldsFromEnv(v, envPrefix, i, log) ==
    IF i > Len(v.type) THEN [v |-> v, err |-> NoError, log |-> log]
    ELSE
    LET structField == v.type[i]
        path == Append(v.path, i)
    IN  IF ~structField.exported                       \* !field.CanSet()
        THEN loadFieldsFromEnv(v, envPrefix, i + 1, log)
        ELSE IF structField.kind = "struct"
        THEN LET r == loadStructFromEnv([type |-> structField.elem,
                                         val  |-> v.val[i],
                                         path |-> path], envPrefix)
                 w == [v EXCEPT !.val[i] = r.v.val]
             IN  IF r.err # NoError
                 THEN [v |-> w, err |-> r.err, log |-> log \o r.log]
                 ELSE loadFieldsFromEnv(w, envPrefix, i + 1, log \o r.log)
        ELSE LET envVar == getEnvVarName(structField, envPrefix)
                 look   == LookupEnv(envVar)
                 log2   == Append(log, Event("LookupEnv", envVar, path, <<>>))
                 s      == setFieldFromEnv([kind |-> structField.kind,
                                            val  |-> v.val[i]], look.value)
             IN  IF look.exists
                 THEN IF s.err # NoError
                      THEN [v   |-> v,
                            err |-> SetFieldError(structField, envVar, s.err),
                            log |-> log2]
                      ELSE loadFieldsFromEnv([v EXCEPT !.val[i] = s.field.val],
                                             envPrefix, i + 1, log2)
                 ELSE loadFieldsFromEnv(v, envPrefix, i + 1, log2)

\* loadStructFromEnv(v, envPrefix): the struct after the pass, the error, and
\* the lookups made
loadStructFromEnv(v, envPrefix) == loadFieldsFromEnv(v, envPrefix, 1, <<>>)

\* loadFromEnv(cfg, params), cfg a pointer to the struct c
loadFromEnv(c, params) == loadStructFromEnv(c, params.envPrefix)

----------------------------------------------------------------------------
(* The file phase and Load *)

\* a variant of validateConfig that forgets the nil-pointer check
validateConfigNoNilCheck(c) ==
    IF c.isNil THEN Failure("config must not be nil")
    ELSE IF c.kind # "ptr" THEN Failure("config must be a pointer to struct")
    ELSE IF c.elemKind # "struct"
    THEN Failure("config must be a pointer to struct")
    ELSE NoError

\* validateConfig(cfg)
validateConfig(c) ==
    IF c.isNil THEN Failure("config must not be nil")
    ELSE IF c.kind # "ptr" THEN Failure("config must be a pointer to struct")
    ELSE IF c.ptrNil THEN Failure("config pointer must not be nil")
    ELSE IF c.elemKind # "struct"
    THEN Failure("config must be a pointer to struct")
    ELSE NoError

\* paramAction(p), for one Action
ApplyAction(action, o) ==
    CASE action.name = "WithPaths"     -> WithPaths(action.paths, o)
      [] action.name = "WithName"      -> WithName(action.base, o)
      [] action.name = "WithEnvPrefix" -> WithEnvPrefix(action.prefix, o)

\* the loop over paramsActions, from action i on
RECURSIVE ApplyActions(_, _, _)
ApplyActions(paramsActions, i, o) ==
    IF i > Len(paramsActions) THEN o
    ELSE ApplyActions(paramsActions, i + 1, ApplyAction(paramsActions[i], o))

\* filepath.Join(path, name + ".yaml"), as the pair of directory and base name
Join(path, name) == <<path, name>>

\* os.ReadFile on the model's file system
ReadFile(fullName) ==
    IF fullName \notin DOMAIN disk THEN [data |-> <<>>, err |-> "notexist"]
    ELSE IF disk[fullName].unreadable THEN [data |-> <<>>, err |-> "other"]
    ELSE [data |-> disk[fullName], err |-> "nil"]

RECURSIVE SetAt(_, _, _)
SetAt(val, path, x) ==
    IF Len(path) = 1 THEN [val EXCEPT ![path[1]] = x]
    ELSE [val EXCEPT ![path[1]] = SetAt(val[path[1]], Tail(path), x)]

RECURSIVE Decode(_, _, _)
Decode(val, doc, i) ==
    IF i > Len(doc) THEN val
    ELSE Decode(SetAt(val, doc[i].path, doc[i].val), doc, i + 1)

\* yaml.Unmarshal(data, cfg): the fields the document names are written; a
\* malformed document fails, after the fields decoded before the fault
Unmarshal(data, c) ==
    [v   |-> [c EXCEPT !.val = Decode(c.val, data.doc, 1)],
     err |-> IF data.bad THEN Failure("yaml") ELSE NoError]

RECURSIVE loadPathsFromYaml(_, _, _, _)

\* a variant of the path loop that goes on to the later paths after a file
\* was decoded
loadPathsFromYamlAll(c, parameters, i, log) ==
    IF i > Len(parameters.paths) THEN [v |-> c, err |-> NoError, log |-> log]
    ELSE
    LET fullName == Join(parameters.paths[i], parameters.name)
        r    == ReadFile(fullName)
        log2 == Append(log, Event("ReadFile", <<>>, <<>>, fullName))
        u    == Unmarshal(r.data, c)
    IN  IF r.err = "notexist"
        THEN loadPathsFromYaml(c, parameters, i + 1, log2)
        ELSE IF r.err # "nil"
        THEN [v |-> c, err |-> Failure("unread file"), log |-> log2]
        ELSE IF u.err # NoError
        THEN [v |-> u.v, err |-> Failure("unparse yaml"), log |-> log2]
        ELSE loadPathsFromYaml(u.v, parameters, i + 1, log2)

\* the loop of loadFromYaml from path i on
loadPathsFromYaml(c, parameters, i, log) ==
    IF i > Len(parameters.paths) THEN [v |-> c, err |-> NoError, log |-> log]
    ELSE
    LET fullName == Join(parameters.paths[i], parameters.name)
        r    == ReadFile(fullName)
        log2 == Append(log, Event("ReadFile", <<>>, <<>>, fullName))
        u    == Unmarshal(r.data, c)
    IN  IF r.err = "notexist"                          \* os.IsNotExist(err)
        THEN loadPathsFromYaml(c, parameters, i + 1, log2)
        ELSE IF r.err # "nil"
        THEN [v |-> c, err |-> Failure("unread file"), log |-> log2]
        ELSE IF u.err # NoError
        THEN [v |-> u.v, err |-> Failure("unparse yaml"), log |-> log2]
        ELSE [v |-> u.v, err |-> NoError, log |-> log2]

\* loadFromYaml(cfg, parameters), cfg a pointer to the struct c
loadFromYaml(c, parameters) == loadPathsFromYaml(c, parameters, 1, <<>>)

\* fmt.Errorf(stage + ": %w", err)
Wrap(stage, e) == [e EXCEPT !.stage = stage]

\* ghost: the log entries of the options Load applies
OptionLog(paramsActions) ==
    [i \in 1..Len(paramsActions) |->
        Event(paramsActions[i].name, <<>>, <<>>, <<>>)]

\* the result of Load once both phases ran: the error of the environment
\* pass, wrapped, or nil
loadAfterEnv(paramsActions, parameters, y, e) ==
    [v   |-> e.v, p |-> parameters,
     log |-> OptionLog(paramsActions) \o y.log \o e.log,
     err |-> IF e.err # NoError THEN Wrap("load env", e.err) ELSE NoError]

\* a variant of Load that goes on to the environment pass after the file
\* phase failed
loadAfterYamlIgnoringError(paramsActions, parameters, y) ==
    loadAfterEnv(paramsActions, parameters, y, loadFromEnv(y.v, parameters))

\* Load from the result y of loadFromYaml on: its error returned, wrapped,
\* or else the environment pass over what the file phase left
loadAfterYaml(paramsActions, parameters, y) ==
    IF y.err # NoError
    THEN [v |-> y.v, p |-> parameters, log |-> OptionLog(paramsActions) \o y.log,
          err |-> Wrap("unload config file", y.err)]
    ELSE loadAfterEnv(paramsActions, parameters, y,
                      loadFromEnv(y.v, parameters))

\* the file phase run on the result e of an environment pass that ran first
loadYamlAfterEnv(paramsActions, parameters, e, y) ==
    [v   |-> y.v, p |-> parameters,
     log |-> OptionLog(paramsActions) \o e.log \o y.log,
     err |-> IF y.err # NoError THEN Wrap("unload config file", y.err)
             ELSE NoError]

loadEnvThenYaml(paramsActions, parameters, e) ==
    IF e.err # NoError
    THEN [v |-> e.v, p |-> parameters, log |-> OptionLog(paramsActions) \o e.log,
          err |-> Wrap("load env", e.err)]
    ELSE loadYamlAfterEnv(paramsActions, parameters, e,
                          loadFromYaml(e.v, parameters))

\* a variant of Load that runs the environment pass before the file phase
loadResolvedEnvFirst(c, paramsActions, parameters) ==
    loadEnvThenYaml(paramsActions, parameters, loadFromEnv(c.elem, parameters))

\* Load from the resolved parameters on: loadFromYaml, then the rest
loadResolved(c, paramsActions, parameters) ==
    loadAfterYaml(paramsActions, parameters, loadFromYaml(c.elem, parameters))

\* Load(cfg, paramsActions...): the struct cfg points to after the call, the
\* parameters p the call resolved, the error, and the log of what it did
Load(c, paramsActions) ==
    IF validateConfig(c) # NoError
    THEN [v |-> c.elem, p |-> defaultParameters, log |-> <<>>,
          err |-> Wrap("invalid config", validateConfig(c))]
    ELSE loadResolved(c, paramsActions,
                      ApplyActions(paramsActions, 1, defaultParameters))

----------------------------------------------------------------------------
(* Specification SpecPrefix: WithEnvPrefix applied to a parameters object, *)
(* for every raw prefix over PrefixChars of length at most MaxPrefixLen.   *)

MaxPrefixLen == 3
PrefixChars == {"a", "A", "_"}
RawPrefixes == SeqsUpTo(PrefixChars, MaxPrefixLen)

NoEnv == [n \in {} |-> <<>>]
NoFiles == [n \in {} |-> <<>>]

\* the cfg arguments of Load: the nil interface, a struct passed by value, a
\* nil *struct, a pointer to an int, and a pointer to the caller's struct
NilInterface == [isNil |-> TRUE, kind |-> "invalid", ptrNil |-> FALSE,
                 elemKind |-> "invalid"]
StructByValue == [isNil |-> FALSE, kind |-> "struct", ptrNil |-> FALSE,
                  elemKind |-> "invalid"]
NilPointer == [isNil |-> FALSE, kind |-> "ptr", ptrNil |-> TRUE,
               elemKind |-> "struct"]
PointerToInt == [isNil |-> FALSE, kind |-> "ptr", ptrNil |-> FALSE,
                 elemKind |-> "int"]
PointerToStruct == [isNil |-> FALSE, kind |-> "ptr", ptrNil |-> FALSE,
                    elemKind |-> "struct"]

IdleLoad ==
    /\ env = NoEnv
    /\ cfg = [type |-> <<>>, val |-> <<>>, path |-> <<>>]
    /\ err = NoError
    /\ io = <<>>
    /\ cfgBefore = cfg
    /\ passes = 0
    /\ prev = [cfg |-> cfg, err |-> NoError]
    /\ disk = NoFiles
    /\ arg = NilInterface
    /\ loads = 0

IdleParse ==
    /\ fv = [kind |-> "string", val |-> <<>>]
    /\ fvBefore = fv
    /\ envValue = <<>>
    /\ called = FALSE
    /\ ferr = NoError

InitPrefix ==
    /\ p = defaultParameters
    /\ optHist = <<>>
    /\ IdleParse
    /\ IdleLoad

ApplyWithEnvPrefix(prefix) ==
    /\ Len(optHist) < 2    \* two successive applications are observed
    /\ p' = WithEnvPrefix(prefix, p)
    /\ optHist' = Append(optHist, [raw |-> prefix, out |-> p'.envPrefix])
    /\ UNCHANGED <<parseVars, loadVars, callVars>>

NextPrefix == \E prefix \in RawPrefixes : ApplyWithEnvPrefix(prefix)

SpecPrefix == InitPrefix /\ [][NextPrefix]_vars

\* s and t have the same letters at the same places, whatever their case
SameLetters(s, t) ==
    /\ Len(s) = Len(t)
    /\ \A i \in 1..Len(s) :
         \/ s[i] = t[i]
         \/ \E k \in 1..26 : {s[i], t[i]} = {LowerLetters[k], UpperLetters[k]}

EndsWithTwoSeparators(s) == HasSuffix(s, <<"_", "_">>)

\* C4 (as stated): normalizing an already normalized prefix changes nothing,
\* and two raw prefixes that differ only in letter case normalize alike.
C4_IdempotentAndCaseInsensitive ==
    \A i \in 1..Len(optHist) - 1 :
        /\ optHist[i + 1].raw = optHist[i].out
              => optHist[i + 1].out = optHist[i].out
        /\ SameLetters(optHist[i].raw, optHist[i + 1].raw)
              => optHist[i + 1].out = optHist[i].out

\* C4 (amended): normalization is case-insensitive on every input; it strips
\* exactly one trailing "_", so normalizing the normalized prefix again gives
\* the same prefix exactly when the raw prefix does not end in "__".
C4_CaseInsensitiveStripsOne ==
    \A i \in 1..Len(optHist) - 1 :
        /\ optHist[i + 1].raw = optHist[i].out
              => (optHist[i + 1].out = optHist[i].out
                    <=> ~EndsWithTwoSeparators(optHist[i].raw))
        /\ SameLetters(optHist[i].raw, optHist[i + 1].raw)
              => optHist[i + 1].out = optHist[i].out

\* a mixed-case prefix with one trailing separator was normalized, then its
\* upper-case twin, then (elsewhere) the normalized prefix itself
C4_Witness ==
    /\ Len(optHist) = 2
    /\ optHist[1].raw = <<"a", "A", "_">>
    /\ optHist[2].raw = <<"A", "a", "_">>
    /\ optHist[2].out = <<"A", "A">>

----------------------------------------------------------------------------
(* Specification SpecParse: setFieldFromEnv on one field of every kind,    *)
(* holding its zero value or a value a file gave it, for every Literal.    *)

\* the string of a tuple of decimal digits
Str(digits) == [i \in 1..Len(digits) |-> DigitChars[digits[i] + 1]]

IntegerLiterals ==
    {<<"0">>, <<"7">>, <<"-","0">>, <<"+","7">>, <<"0","0","7">>, <<"-","5">>,
     Str(<<1,2,7>>), Str(<<1,2,8>>), <<"-">> \o Str(<<1,2,8>>),
     <<"-">> \o Str(<<1,2,9>>), Str(<<2,5,5>>), Str(<<2,5,6>>),
     Str(<<3,0,0>>), Str(<<3,2,7,6,8>>), Str(<<6,5,5,3,6>>),
     Str(<<2,1,4,7,4,8,3,6,4,7>>), Str(<<2,1,4,7,4,8,3,6,4,8>>),
     Str(<<4,2,9,4,9,6,7,2,9,6>>),
     Str(<<9,2,2,3,3,7,2,0,3,6,8,5,4,7,7,5,8,0,7>>),
     Str(<<9,2,2,3,3,7,2,0,3,6,8,5,4,7,7,5,8,0,8>>),
     <<"-">> \o Str(<<9,2,2,3,3,7,2,0,3,6,8,5,4,7,7,5,8,0,8>>),
     <<"-">> \o Str(<<9,2,2,3,3,7,2,0,3,6,8,5,4,7,7,5,8,0,9>>),
     Str(<<1,8,4,4,6,7,4,4,0,7,3,7,0,9,5,5,1,6,1,5>>),
     Str(<<1,8,4,4,6,7,4,4,0,7,3,7,0,9,5,5,1,6,1,6>>)}

OtherLiterals ==
    {<<>>, <<"-">>, <<" ","7">>, <<"7"," ">>, <<"7","a">>,
     <<"n","o","t","a","n","u","m","b","e","r">>,
     <<"1",".","5">>, <<"-","0",".","2","5">>, <<".","5">>, <<"1",".">>,
     <<"1",".","5","0">>, <<"1","5","e","-","1">>, <<"1","e","2">>,
     <<"1","e">>, <<"1",".","2",".","3">>, <<"1","e","4","0","0">>,
     <<"I","n","f">>, <<"n","a","n">>,
     <<"1">>, <<"t">>, <<"T">>, <<"t","r","u","e">>, <<"T","r","u","e">>,
     <<"T","R","U","E">>, <<"f">>, <<"F">>, <<"f","a","l","s","e">>,
     <<"F","a","l","s","e">>, <<"F","A","L","S","E">>,
     <<"t","R","u","E">>, <<"y","e","s">>}

Literals == IntegerLiterals \cup OtherLiterals

\* the int64 or uint64 of a small natural number
Small64(n) == <<n % Limb, n \div Limb, 0, 0>>

\* the zero value of a scalar kind
ZeroValue(kind) ==
    CASE kind = "string"             -> <<>>
      [] kind = "bool"               -> FALSE
      [] kind = "float32"            -> SetFloat(kind, FloatZero)
      [] kind = "float64"            -> FloatZero
      [] kind \in SignedKinds \cup UnsignedKinds -> Zero64
      [] OTHER                       -> <<>>

\* a value of the kind that a file may have written: "db", true, 2.5 or 42
FileValue(kind) ==
    CASE kind = "string"  -> <<"d", "b">>
      [] kind = "bool"    -> TRUE
      [] kind \in FloatKinds ->
           SetFloat(kind, [class |-> "num", neg |-> FALSE,
                           mant |-> <<"2", "5">>, exp |-> -1])
      [] kind \in SignedKinds \cup UnsignedKinds -> Small64(42)
      [] OTHER -> <<"x">>

FieldKinds == ScalarKinds \cup {"slice"}

InitParse ==
    /\ p = defaultParameters
    /\ optHist = <<>>
    /\ \E kind \in FieldKinds, v \in {"zero", "file"} :
          fv = [kind |-> kind,
                   val  |-> IF v = "zero" THEN ZeroValue(kind)
                            ELSE FileValue(kind)]
    /\ fvBefore = fv
    /\ envValue = <<>>
    /\ called = FALSE
    /\ ferr = NoError
    /\ IdleLoad

SetFieldFromEnv(v) ==
    /\ ~called
    /\ LET r == setFieldFromEnv(fv, v)
       IN  /\ fv' = r.field
           /\ ferr' = r.err
    /\ fvBefore' = fv
    /\ envValue' = v
    /\ called' = TRUE
    /\ UNCHANGED <<prefixVars, loadVars, callVars>>

NextParse == \E v \in Literals : SetFieldFromEnv(v)

SpecParse == InitParse /\ [][NextParse]_vars

\* a base-10 integer literal: an optional sign (when allowed) and digits
IsDecimal(s, signAllowed) ==
    LET body == IF signAllowed /\ s # <<>> /\ s[1] \in {"+", "-"}
                THEN Tail(s) ELSE s
    IN  body # <<>> /\ \A i \in 1..Len(body) : IsDigit(body[i])

IsNegative(s) == s # <<>> /\ s[1] = "-"

\* the digits of a decimal literal, without sign and leading zeros
Magnitude(s) ==
    StripLeadingZeros(IF s[1] \in {"+", "-"} THEN Tail(s) ELSE s)

\* a < b, for two digit strings without leading zeros
DigitsLess(a, b) ==
    \/ Len(a) < Len(b)
    \/ /\ Len(a) = Len(b)
       /\ \E i \in 1..Len(a) :
            /\ DigitVal(a[i]) < DigitVal(b[i])
            /\ \A j \in 1..(i - 1) : a[j] = b[j]

\* the largest magnitude a kind represents, on the negative or the other side
MaxMagnitude(kind, negative) ==
    CASE kind = "int8"   -> IF negative THEN Str(<<1,2,8>>) ELSE Str(<<1,2,7>>)
      [] kind = "int16"  -> IF negative THEN Str(<<3,2,7,6,8>>)
                            ELSE Str(<<3,2,7,6,7>>)
      [] kind = "int32"  -> IF negative THEN Str(<<2,1,4,7,4,8,3,6,4,8>>)
                            ELSE Str(<<2,1,4,7,4,8,3,6,4,7>>)
      [] kind \in {"int", "int64"} ->
           IF negative THEN Str(<<9,2,2,3,3,7,2,0,3,6,8,5,4,7,7,5,8,0,8>>)
           ELSE Str(<<9,2,2,3,3,7,2,0,3,6,8,5,4,7,7,5,8,0,7>>)
      [] kind = "uint8"  -> IF negative THEN <<>> ELSE Str(<<2,5,5>>)
      [] kind = "uint16" -> IF negative THEN <<>> ELSE Str(<<6,5,5,3,5>>)
      [] kind = "uint32" -> IF negative THEN <<>>
                            ELSE Str(<<4,2,9,4,9,6,7,2,9,5>>)
      [] OTHER           -> IF negative THEN <<>>
                            ELSE Str(<<1,8,4,4,6,7,4,4,0,7,3,7,0,9,5,5,1,6,1,5>>)

\* a decimal literal whose value the kind cannot represent
OutOfRange(s, kind) ==
    /\ IsDecimal(s, TRUE)
    /\ DigitsLess(MaxMagnitude(kind, IsNegative(s)), Magnitude(s))

\* C5 (as stated): an integer field given a base-10 literal outside the range
\* of its declared width gets a parse error and keeps its value, and an
\* unsigned field rejects a literal with a negative sign.
C5_OverflowIsError ==
    (called /\ fv.kind \in SignedKinds \cup UnsignedKinds) =>
        /\ OutOfRange(envValue, fv.kind)
              => (ferr.cause # "nil" /\ fv = fvBefore)
        /\ (fv.kind \in UnsignedKinds /\ IsDecimal(envValue, TRUE)
                /\ IsNegative(envValue))
              => (ferr.cause # "nil" /\ fv = fvBefore)

----------------------------------------------------------------------------
(* Specification SpecEnv: the environment pass (loadFromEnv) on structs of *)
(* two types, zero-valued or filled by a file, under the default prefix or *)
(* the empty one, for every environment of at most MaxEnv variables.       *)

MaxEnv == 2

Field(name, kind, tag) ==
    [name |-> name, kind |-> kind, tag |-> tag, exported |-> TRUE,
     elem |-> <<>>]
Unexported(name, kind, tag) ==
    [name |-> name, kind |-> kind, tag |-> tag, exported |-> FALSE,
     elem |-> <<>>]
Struct(name, tag, fields) ==
    [name |-> name, kind |-> "struct", tag |-> tag, exported |-> TRUE,
     elem |-> fields]
\* a field of type *struct{...}: its kind is reflect.Ptr, not reflect.Struct
Pointer(name, tag, fields) ==
    [name |-> name, kind |-> "ptr", tag |-> tag, exported |-> TRUE,
     elem |-> fields]

\* type ServerConfig struct {
\*     Name   string                       // no env tag
\*     Port   int8     `env:"port"`
\*     Inner  struct {
\*         Debug bool  `env:"DEBUG"`
\*         Deep  struct { Value string `env:"V"` }
\*     }
\*     hidden uint16   `env:"HIDDEN"`      // unexported
\*     Tags   []string `env:"TAGS"`
\*     Last   uint16   `env:"LAST"`
\* }
ServerConfig ==
    <<Field(<<"N","a","m","e">>, "string", <<>>),
      Field(<<"P","o","r","t">>, "int8", <<"p","o","r","t">>),
      Struct(<<"I","n","n","e","r">>, <<>>,
             <<Field(<<"D","e","b","u","g">>, "bool", <<"D","E","B","U","G">>),
               Struct(<<"D","e","e","p">>, <<>>,
                      <<Field(<<"V","a","l","u","e">>, "string", <<"V">>)>>)>>),
      Unexported(<<"h","i","d","d","e","n">>, "uint16",
                 <<"H","I","D","D","E","N">>),
      Field(<<"T","a","g","s">>, "slice", <<"T","A","G","S">>),
      Field(<<"L","a","s","t">>, "uint16", <<"L","A","S","T">>)>>

\* type SharedKeys struct {
\*     A   string `env:"V"`
\*     Sub struct { C uint16 `env:"port"` } `env:"PORT"`
\*     B   int8   `env:"v"`
\* }
SharedKeys ==
    <<Field(<<"A">>, "string", <<"V">>),
      Struct(<<"S","u","b">>, <<"P","O","R","T">>,
             <<Field(<<"C">>, "uint16", <<"p","o","r","t">>)>>),
      Field(<<"B">>, "int8", <<"v">>)>>

\* type Collections struct {
\*     Opts  map[string]string                                // no env tag
\*     Ref   *struct { Value string `env:"V"` }               // no env tag
\*     cache []string                           `env:"HIDDEN"` // unexported
\*     Link  *struct { Value string `env:"V"` } `env:"DEBUG"`
\*     Tags  []string                           `env:"TAGS"`
\*     Last  uint16                             `env:"LAST"`
\* }
Collections ==
    <<Field(<<"O","p","t","s">>, "map", <<>>),
      Pointer(<<"R","e","f">>, <<>>,
              <<Field(<<"V","a","l","u","e">>, "string", <<"V">>)>>),
      Unexported(<<"c","a","c","h","e">>, "slice",
                 <<"H","I","D","D","E","N">>),
      Pointer(<<"L","i","n","k">>, <<"D","E","B","U","G">>,
              <<Field(<<"V","a","l","u","e">>, "string", <<"V">>)>>),
      Field(<<"T","a","g","s">>, "slice", <<"T","A","G","S">>),
      Field(<<"L","a","s","t">>, "uint16", <<"L","A","S","T">>)>>

EnvTypes == {ServerConfig, SharedKeys, Collections}

\* the value of a struct type whose leaves hold leaf(kind); a pointer field is
\* nil when zero and points to a filled struct when a file wrote it
RECURSIVE StructValue(_, _)
StructValue(type, filled) ==
    [i \in 1..Len(type) |->
        IF type[i].kind = "struct" THEN StructValue(type[i].elem, filled)
        ELSE IF type[i].kind = "ptr" /\ filled
        THEN StructValue(type[i].elem, filled)
        ELSE IF filled THEN FileValue(type[i].kind)
        ELSE ZeroValue(type[i].kind)]

\* the names the environment may hold: the tags and the untagged field's name
\* under the prefix in use, and names of the other namespace
Keys ==
    {<<"P","O","R","T">>, <<"D","E","B","U","G">>, <<"V">>,
     <<"H","I","D","D","E","N">>, <<"T","A","G","S">>, <<"L","A","S","T">>,
     <<"N","A","M","E">>}
EnvNames ==
    IF p.envPrefix = <<>>
    THEN Keys \cup {<<"A","P","P","_","P","O","R","T">>}
    ELSE {p.envPrefix \o <<"_">> \o k : k \in Keys}
            \cup {<<"P","O","R","T">>, <<"V">>}

EnvValues == {<<"1">>, Str(<<3,0,0>>), <<"-","1">>, <<"x">>}

InitEnv ==
    /\ \E raw \in {<<"a","p","p","_">>, <<>>} :
          /\ p = WithEnvPrefix(raw, defaultParameters)
          /\ optHist = <<[raw |-> raw, out |-> p.envPrefix]>>
    /\ IdleParse
    /\ env = NoEnv
    /\ \E type \in EnvTypes, filled \in BOOLEAN :
          cfg = [type |-> type, val |-> StructValue(type, filled),
                 path |-> <<>>]
    /\ err = NoError
    /\ io = <<>>
    /\ cfgBefore = cfg
    /\ passes = 0
    /\ prev = [cfg |-> cfg, err |-> NoError]
    /\ disk = NoFiles
    /\ arg = PointerToStruct
    /\ loads = 0

\* os.Setenv(name, v), before the first pass
Setenv(name, v) ==
    /\ passes = 0 /\ loads = 0
    /\ name # <<>>
    /\ name \in DOMAIN env \/ Cardinality(DOMAIN env) < MaxEnv
    /\ env' = [n \in DOMAIN env \cup {name} |->
                  IF n = name THEN v ELSE env[n]]
    /\ UNCHANGED <<prefixVars, parseVars, callVars>>
    /\ UNCHANGED <<cfg, err, io, cfgBefore, passes, prev>>

\* os.Unsetenv(name), before the first pass
Unsetenv(name) ==
    /\ passes = 0 /\ loads = 0
    /\ name \in DOMAIN env
    /\ env' = [n \in DOMAIN env \ {name} |-> env[n]]
    /\ UNCHANGED <<prefixVars, parseVars, callVars>>
    /\ UNCHANGED <<cfg, err, io, cfgBefore, passes, prev>>

\* loadFromEnv(&cfg, p), at most twice in succession
Override ==
    /\ passes < 2
    /\ LET r == loadFromEnv(cfg, p)
       IN  /\ cfg' = r.v
           /\ err' = r.err
           /\ io' = r.log
    /\ cfgBefore' = cfg
    /\ prev' = [cfg |-> cfg, err |-> err]
    /\ passes' = passes + 1
    /\ UNCHANGED <<prefixVars, parseVars, callVars, env>>

NextEnv ==
    \/ \E name \in EnvNames, v \in EnvValues : Setenv(name, v)
    \/ \E name \in EnvNames : Unsetenv(name)
    \/ Override

SpecEnv == InitEnv /\ [][NextEnv]_vars

\* the paths (field indexes from the root) of the leaf fields of a type
RECURSIVE LeafPaths(_, _)
LeafPaths(type, path) ==
    UNION {IF type[i].kind = "struct"
           THEN LeafPaths(type[i].elem, Append(path, i))
           ELSE {Append(path, i)} : i \in 1..Len(type)}

RECURSIVE FieldAt(_, _)
FieldAt(type, path) ==
    IF Len(path) = 1 THEN type[path[1]]
    ELSE FieldAt(type[path[1]].elem, Tail(path))

RECURSIVE ValueAt(_, _)
ValueAt(val, path) ==
    IF Len(path) = 1 THEN val[path[1]]
    ELSE ValueAt(val[path[1]], Tail(path))

\* reflect can set the field: it and the structs around it are exported
RECURSIVE Settable(_, _)
Settable(type, path) ==
    /\ type[path[1]].exported
    /\ Len(path) > 1 => Settable(type[path[1]].elem, Tail(path))

\* a comes before b in depth-first declaration order
RECURSIVE PathBefore(_, _)
PathBefore(a, b) ==
    /\ a # <<>> /\ b # <<>>
    /\ \/ a[1] < b[1]
       \/ a[1] = b[1] /\ PathBefore(Tail(a), Tail(b))

Leaves == LeafPaths(cfg.type, <<>>)
Tag(l) == FieldAt(cfg.type, l).tag
KindOf(l) == FieldAt(cfg.type, l).kind
Now(l) == ValueAt(cfg.val, l)
Before(l) == ValueAt(cfgBefore.val, l)

\* the environment key of an override key under a prefix, as specified
Key(prefix, overrideKey) ==
    IF prefix # <<>> THEN ToUpper(prefix) \o <<"_">> \o ToUpper(overrideKey)
    ELSE ToUpper(overrideKey)

IsSet(name) == name \in DOMAIN env

\* C1: after an environment pass, a leaf field whose value differs from the
\* value it had before the pass carries a non-empty env tag and its computed
\* variable is set; so an untagged field, and a tagged field whose variable is
\* unset, hold exactly the value they held before.
C1_OnlyTaggedAndSetChange ==
    passes >= 1 =>
        \A l \in Leaves :
            /\ Now(l) # Before(l)
                  => (Tag(l) # <<>> /\ IsSet(Key(p.envPrefix, Tag(l))))
            /\ (Tag(l) = <<>> \/ ~IsSet(Key(p.envPrefix, Tag(l))))
                  => Now(l) = Before(l)

\* a pass overrode the tagged Port while the untagged Name, whose would-be
\* variable APP_NAME is set, and the tagged Last, whose variable is unset, kept
\* the values the file gave them
C1_Witness ==
    /\ passes = 1
    /\ cfg.type = ServerConfig
    /\ p.envPrefix = <<"A","P","P">>
    /\ IsSet(<<"A","P","P","_","N","A","M","E">>)
    /\ IsSet(<<"A","P","P","_","P","O","R","T">>)
    /\ ~IsSet(<<"A","P","P","_","L","A","S","T">>)
    /\ Now(<<2>>) # Before(<<2>>)
    /\ Now(<<1>>) = <<"d","b">>
    /\ Now(<<6>>) = Small64(42)

\* the lookups the last pass made for the leaf l
LookupsFor(l) == {i \in 1..Len(io) : io[i].op = "LookupEnv" /\ io[i].path = l}

Visited(l) == Settable(cfg.type, l)

\* the value of l's variable is present and cannot be parsed for the kind of
\* l: it is no literal of the kind, or it is an integer literal that the
\* declared width of l cannot represent
Unparsable(l) ==
    /\ Tag(l) # <<>>
    /\ IsSet(Key(p.envPrefix, Tag(l)))
    /\ \/ setFieldFromEnv([kind |-> KindOf(l), val |-> Before(l)],
                          env[Key(p.envPrefix, Tag(l))]).err # NoError
       \/ /\ KindOf(l) \in SignedKinds \cup UnsignedKinds
          /\ OutOfRange(env[Key(p.envPrefix, Tag(l))], KindOf(l))

\* the value setFieldFromEnv gives l from its variable
Overridden(l) ==
    setFieldFromEnv([kind |-> KindOf(l), val |-> Before(l)],
                    env[Key(p.envPrefix, Tag(l))]).field.val

\* C6 (as stated): the pass returns an error exactly when some visited leaf
\* has a present variable that cannot be parsed for the leaf's kind; the error
\* names the first such leaf in depth-first order and its variable; the
\* visited leaves before it whose variables are set hold their overridden
\* values, and the failing leaf and every leaf after it hold the values they
\* had before the pass.
C6_FailFastNoRollback ==
    passes >= 1 =>
        LET bad == {l \in Leaves : Visited(l) /\ Unparsable(l)}
        IN  /\ err # NoError <=> bad # {}
            /\ \A f \in bad :
                 (\A l \in bad : l = f \/ PathBefore(f, l)) =>
                    /\ err.field = FieldAt(cfg.type, f).name
                    /\ err.envVar = Key(p.envPrefix, Tag(f))
                    /\ Now(f) = Before(f)
                    /\ \A l \in Leaves :
                         /\ (PathBefore(l, f) /\ Visited(l) /\ Tag(l) # <<>>
                               /\ IsSet(Key(p.envPrefix, Tag(l))))
                               => Now(l) = Overridden(l)
                         /\ PathBefore(f, l) => Now(l) = Before(l)

\* C10: a second pass, run right after a first one with the environment
\* unchanged, leaves the struct and the returned error as the first left them.
C10_OverrideIdempotent ==
    passes = 2 => (cfg = prev.cfg /\ err = prev.err)

\* two passes ran; the first had overridden the string A from APP_V = "x"
\* before B failed on the same variable
C10_Witness ==
    /\ passes = 2
    /\ cfg.type = SharedKeys
    /\ IsSet(<<"A","P","P","_","V">>)
    /\ env[<<"A","P","P","_","V">>] = <<"x">>
    /\ Now(<<1>>) = <<"x">>
    /\ err.cause = "syntax"
    /\ err.field = <<"B">>

\* the leaves whose kind setFieldFromEnv has no case for
Unsupported == {l \in Leaves : KindOf(l) \notin ScalarKinds}

\* the leaves the returned error names
ErrAt ==
    {f \in Leaves : /\ err # NoError
                    /\ err.field = FieldAt(cfg.type, f).name
                    /\ err.envVar = Key(p.envPrefix, Tag(f))}

\* the pass stopped at a leaf before l
FailedBefore(l) == \E f \in ErrAt : PathBefore(f, l)

\* the lookups the last pass made for fields inside the leaf l
LookupsBelow(l) ==
    {i \in 1..Len(io) : /\ io[i].op = "LookupEnv"
                        /\ Len(io[i].path) > Len(l)
                        /\ SubSeq(io[i].path, 1, Len(l)) = l}

\* the pass ignored the leaf l: it returned no error for it, left it as it
\* was, looked nothing up inside it, and went on to the leaves after it
Ignored(l) ==
    /\ l \notin ErrAt
    /\ Now(l) = Before(l)
    /\ LookupsBelow(l) = {}
    /\ \A m \in Leaves :
          (PathBefore(l, m) /\ Visited(m) /\ ~FailedBefore(m))
             => LookupsFor(m) # {}

\* C11 (as stated): a field of an unsupported kind that the pass gets to
\* makes it fail with the unsupported-kind error, naming the field, exactly
\* when the field has an env tag and its variable is set; otherwise the field
\* is ignored, left unchanged and not recursed into, and the pass goes on.
C11_UnsupportedKind ==
    passes >= 1 =>
        \A l \in Unsupported : ~FailedBefore(l) =>
            IF Tag(l) # <<>> /\ IsSet(Key(p.envPrefix, Tag(l)))
            THEN err.cause = "unsupported" /\ l \in ErrAt /\ Now(l) = Before(l)
            ELSE Ignored(l)

\* C11 (amended): the same for an exported field; a field reflect cannot set
\* is ignored even when it has an env tag and its variable is set, and no
\* variable is looked up for it.
C11_UnsupportedKindExported ==
    passes >= 1 =>
        \A l \in Unsupported : ~FailedBefore(l) =>
            IF Visited(l) /\ Tag(l) # <<>> /\ IsSet(Key(p.envPrefix, Tag(l)))
            THEN err.cause = "unsupported" /\ l \in ErrAt /\ Now(l) = Before(l)
            ELSE Ignored(l) /\ (~Visited(l) => LookupsFor(l) = {})

\* on a Collections whose pointers are set, with APP_V and APP_TAGS set: the
\* untagged map Opts and pointer Ref were ignored, Ref's struct with its
\* `env:"V"` field untouched; the tagged pointer Link, its variable unset, was
\* looked up and ignored; the pass failed at the slice Tags
C11_Witness ==
    /\ passes = 1
    /\ cfg.type = Collections
    /\ p.envPrefix = <<"A","P","P">>
    /\ DOMAIN env = {<<"A","P","P","_","V">>, <<"A","P","P","_","T","A","G","S">>}
    /\ Before(<<2>>) = <<<<"d","b">>>>
    /\ Now(<<2>>) = Before(<<2>>)
    /\ LookupsFor(<<4>>) # {}
    /\ err.cause = "unsupported"
    /\ err.field = <<"T","a","g","s">>
    /\ err.envVar = <<"A","P","P","_","T","A","G","S">>
    /\ Now(<<5>>) = Before(<<5>>)

----------------------------------------------------------------------------
(* Specification Spec: one call of Load on a ServerConfig, zero-valued or  *)
(* holding the caller's defaults, with every kind of cfg argument and the  *)
(* option lists of OptionLists, for every file system over Dirs and every  *)
(* environment of at most MaxEnv variables over LoadEnvNames.              *)

Dirs == {".", "./config"}

\* config.yaml setting name, port, inner.debug and inner.deep.value
DocA ==
    <<[path |-> <<1>>, val |-> <<"a","p","i">>],
      [path |-> <<2>>, val |-> Small64(42)],
      [path |-> <<3, 1>>, val |-> TRUE],
      [path |-> <<3, 2, 1>>, val |-> <<"d","b">>]>>

\* config.yaml setting port and last
DocB ==
    <<[path |-> <<2>>, val |-> Small64(9)],
      [path |-> <<6>>, val |-> Small64(80)]>>

FileContents ==
    {[unreadable |-> TRUE,  doc |-> <<>>, bad |-> FALSE],
     [unreadable |-> FALSE, doc |-> DocA, bad |-> FALSE],
     [unreadable |-> FALSE, doc |-> DocB, bad |-> FALSE],
     [unreadable |-> FALSE, doc |-> <<DocB[1]>>, bad |-> TRUE]}

\* the Action values WithPaths(paths...), WithName(name), WithEnvPrefix(prefix)
PathsAction(paths) ==
    [name |-> "WithPaths", paths |-> paths, base |-> "", prefix |-> <<>>]
NameAction(name) ==
    [name |-> "WithName", paths |-> <<>>, base |-> name, prefix |-> <<>>]
EnvPrefixAction(prefix) ==
    [name |-> "WithEnvPrefix", paths |-> <<>>, base |-> "", prefix |-> prefix]

OptionLists ==
    {<<>>,
     <<PathsAction(<<"./config", ".">>), EnvPrefixAction(<<"a","p","p","_">>)>>,
     <<PathsAction(<<>>)>>,
     <<NameAction("missing"), EnvPrefixAction(<<>>)>>}

CfgArguments ==
    {NilInterface, StructByValue, NilPointer, PointerToInt, PointerToStruct}

LoadEnvNames ==
    {<<"A","P","P","_","P","O","R","T">>, <<"P","O","R","T">>,
     <<"A","P","P","_","H","I","D","D","E","N">>,
     <<"A","P","P","_","D","E","B","U","G">>}

LoadEnvValues == {<<"1">>, Str(<<3,0,0>>), <<"x">>}

\* the cfg argument a, pointing (when it is a pointer to a struct) to v
Argument(a, v) ==
    [isNil |-> a.isNil, kind |-> a.kind, ptrNil |-> a.ptrNil,
     elemKind |-> a.elemKind, elem |-> v]

Init ==
    /\ p = defaultParameters
    /\ optHist = <<>>
    /\ IdleParse
    /\ env = NoEnv
    /\ \E filled \in BOOLEAN :
          cfg = [type |-> ServerConfig,
                 val  |-> StructValue(ServerConfig, filled), path |-> <<>>]
    /\ err = NoError
    /\ io = <<>>
    /\ cfgBefore = cfg
    /\ passes = 0
    /\ prev = [cfg |-> cfg, err |-> NoError]
    /\ disk = NoFiles
    /\ arg = NilInterface
    /\ loads = 0

\* os.WriteFile(<dir>/config.yaml, content), before Load
WriteFile(dir, content) ==
    /\ loads = 0
    /\ disk' = [n \in DOMAIN disk \cup {Join(dir, "config")} |->
                   IF n = Join(dir, "config") THEN content ELSE disk[n]]
    /\ UNCHANGED <<prefixVars, parseVars, loadVars, arg, loads>>

\* os.Remove(<dir>/config.yaml), before Load
RemoveFile(dir) ==
    /\ loads = 0
    /\ Join(dir, "config") \in DOMAIN disk
    /\ disk' = [n \in DOMAIN disk \ {Join(dir, "config")} |-> disk[n]]
    /\ UNCHANGED <<prefixVars, parseVars, loadVars, arg, loads>>

\* err := Load(a, paramsActions...), a pointing to cfg when it is a pointer
CallLoad(a, paramsActions) ==
    /\ loads = 0
    /\ \E r \in {Load(Argument(a, cfg), paramsActions)} :
           /\ cfg' = r.v
           /\ err' = r.err
           /\ io' = r.log
           /\ p' = IF r.err.stage = "invalid config" THEN p ELSE r.p
    /\ cfgBefore' = cfg
    /\ arg' = a
    /\ loads' = 1
    /\ UNCHANGED <<optHist, parseVars, env, passes, prev, disk>>

Next ==
    \/ \E name \in LoadEnvNames, v \in LoadEnvValues : Setenv(name, v)
    \/ \E name \in LoadEnvNames : Unsetenv(name)
    \/ \E dir \in Dirs, content \in FileContents : WriteFile(dir, content)
    \/ \E dir \in Dirs : RemoveFile(dir)
    \/ \E a \in CfgArguments, paramsActions \in OptionLists :
          CallLoad(a, paramsActions)

Spec == Init /\ [][Next]_vars

\* Load ran on a pointer to the struct
Loaded == loads = 1 /\ arg = PointerToStruct

\* the variable of the tagged leaf l under the prefix Load resolved
Var(l) == Key(p.envPrefix, Tag(l))

\* the number a run of decimal digits denotes
RECURSIVE DigitsValue(_, _, _)
DigitsValue(s, i, acc) ==
    IF i > Len(s) THEN acc
    ELSE DigitsValue(s, i + 1, 10 * acc + DigitVal(s[i]))

TrueLiterals ==
    {<<"1">>, <<"t">>, <<"T">>, <<"T","R","U","E">>, <<"t","r","u","e">>,
     <<"T","r","u","e">>}
FalseLiterals ==
    {<<"0">>, <<"f">>, <<"F">>, <<"F","A","L","S","E">>,
     <<"f","a","l","s","e">>, <<"F","a","l","s","e">>}

\* s is a valid literal for the kind, by the parse rules of the spec: any
\* string, a boolean token, a base-10 integer the declared width represents
\* (with no sign for an unsigned kind)
ValidLiteral(s, kind) ==
    CASE kind = "string" -> TRUE
      [] kind = "bool"   -> s \in TrueLiterals \cup FalseLiterals
      [] kind \in SignedKinds   -> IsDecimal(s, TRUE) /\ ~OutOfRange(s, kind)
      [] kind \in UnsignedKinds -> IsDecimal(s, FALSE) /\ ~OutOfRange(s, kind)
      [] OTHER -> FALSE

\* the value a valid literal denotes, as the field stores it
Denoted(s, kind) ==
    CASE kind = "string" -> s
      [] kind = "bool"   -> s \in TrueLiterals
      [] kind \in SignedKinds \cup UnsignedKinds ->
           IF IsNegative(s)
           THEN Neg64(Small64(DigitsValue(Magnitude(s), 1, 0)))
           ELSE Small64(DigitsValue(Magnitude(s), 1, 0))

\* the tagged scalar leaves whose variable holds a valid literal
ValidlySet ==
    {l \in Leaves : /\ Tag(l) # <<>>
                    /\ KindOf(l) \in ScalarKinds
                    /\ IsSet(Var(l))
                    /\ ValidLiteral(env[Var(l)], KindOf(l))}

\* C2 (as stated): after a successful Load, every scalar field with an
\* override key whose variable holds a valid literal for the field's kind
\* holds the value of that literal, whatever the file phase wrote into it.
C2_EnvDominatesFile ==
    (Loaded /\ err = NoError) =>
        \A l \in ValidlySet : Now(l) = Denoted(env[Var(l)], KindOf(l))

\* C2 (amended): after a successful Load, every exported scalar field (of
\* exported enclosing structs) with an override key whose variable holds a
\* valid literal for the field's kind holds the value of that literal,
\* whatever the file phase wrote into it.
C2_EnvDominatesFileExported ==
    (Loaded /\ err = NoError) =>
        \A l \in ValidlySet :
            Settable(cfg.type, l) => Now(l) = Denoted(env[Var(l)], KindOf(l))

\* the file ./config.yaml gave Port the value 42, APP_PORT holds "1", Load
\* succeeded and Port is 1
C2_Witness ==
    /\ Loaded /\ err = NoError
    /\ p.envPrefix = <<"A","P","P">>
    /\ \E i \in 1..Len(io) : io[i].op = "ReadFile"
    /\ ValueAt(loadFromYaml(cfgBefore, p).v.val, <<2>>) = Small64(42)
    /\ Before(<<2>>) = Zero64
    /\ IsSet(<<"A","P","P","_","P","O","R","T">>)
    /\ env[<<"A","P","P","_","P","O","R","T">>] = <<"1">>
    /\ Now(<<2>>) = Small64(1)

\* C7: a Load whose cfg argument is nil, not a pointer, a nil pointer or a
\* pointer to a non-struct returns a validation error, and on that call no
\* option was applied, no file was read, no variable was looked up, and the
\* struct and the parameters are as they were.
C7_ValidationFirst ==
    (loads = 1 /\ arg # PointerToStruct) =>
        /\ err.stage = "invalid config"
        /\ err.cause # "nil"
        /\ io = <<>>
        /\ cfg = cfgBefore
        /\ p = defaultParameters

\* Load was called with a nil pointer while a file was present and a variable
\* was set, and returned the validation error with nothing read
C7_Witness ==
    /\ loads = 1
    /\ arg = NilPointer
    /\ DOMAIN disk # {}
    /\ DOMAIN env # {}
    /\ err.cause = "config pointer must not be nil"
    /\ io = <<>>


\* the file the file phase looks for at the i-th search path
FileAt(i) == Join(p.paths[i], p.name)

\* the search paths at which the file exists
Present == {i \in 1..Len(p.paths) : FileAt(i) \in DOMAIN disk}

\* the first of them, in the order given
FirstPresent == CHOOSE i \in Present : \A j \in Present : i <= j

\* a file that cannot be read or cannot be decoded
Broken(f) == f.unreadable \/ f.bad

\* the files the call read, in order
FilesRead ==
    LET reads == SelectSeq(io, LAMBDA e : e.op = "ReadFile")
    IN  [k \in 1..Len(reads) |-> reads[k].file]

LookedUp == \E k \in 1..Len(io) : io[k].op = "LookupEnv"

\* the values the document of file f assigns to the leaf l
AssignedBy(f, l) ==
    {f.doc[k].val : k \in {j \in 1..Len(f.doc) : f.doc[j].path = l}}

\* the value the leaf l has once the whole document of f was decoded
FromFile(f, l) ==
    LET ks == {j \in 1..Len(f.doc) : f.doc[j].path = l}
    IN  IF ks = {} THEN Before(l)
        ELSE f.doc[CHOOSE k \in ks : \A j \in ks : j <= k].val

\* the environment may override the leaf l
EnvCovers(l) == Tag(l) # <<>> /\ IsSet(Var(l))

\* C8: when the first file the file phase finds cannot be read or decoded,
\* Load returns the file phase's error, no variable is looked up, and every
\* field holds the value it had before the call or one the file gave it,
\* whatever the environment contains.
C8_BadFileAbortsBeforeEnv ==
    (Loaded /\ Present # {} /\ Broken(disk[FileAt(FirstPresent)])) =>
        /\ err.stage = "unload config file"
        /\ err.cause # "nil"
        /\ ~LookedUp
        /\ \A l \in Leaves :
              Now(l) \in {Before(l)} \cup AssignedBy(disk[FileAt(FirstPresent)], l)

\* ./config.yaml gave Port the value 9 and then failed to decode while
\* APP_PORT held "1": Load returned the decode error and Port is 9
C8_Witness ==
    /\ Loaded
    /\ p.paths = <<".", "./config">> /\ p.name = "config"
    /\ p.envPrefix = <<"A","P","P">>
    /\ FileAt(1) \in DOMAIN disk
    /\ disk[FileAt(1)].bad
    /\ IsSet(<<"A","P","P","_","P","O","R","T">>)
    /\ env[<<"A","P","P","_","P","O","R","T">>] = <<"1">>
    /\ err.stage = "unload config file"
    /\ err.cause = "unparse yaml"
    /\ Now(<<2>>) = Small64(9)
    /\ Before(<<2>>) # Small64(9)

\* C9: the file phase reads the search paths in the order given up to the
\* first one at which the file exists and no further, and when that file
\* decodes, the fields the environment does not cover hold what that file
\* alone gave them; when the file exists at no path (also with no paths at
\* all) every path is read, the file phase returns no error, and the struct
\* and the error are those of the environment pass run on the struct as it
\* was before the call.
C9_FirstPathWins ==
    Loaded =>
        /\ Present # {} =>
              /\ FilesRead = [k \in 1..FirstPresent |-> FileAt(k)]
              /\ ~Broken(disk[FileAt(FirstPresent)]) =>
                    /\ err.stage # "unload config file"
                    /\ \A l \in Leaves :
                          ~EnvCovers(l)
                             => Now(l) = FromFile(disk[FileAt(FirstPresent)], l)
        /\ Present = {} =>
              /\ FilesRead = [k \in 1..Len(p.paths) |-> FileAt(k)]
              /\ err.stage # "unload config file"
              /\ LookedUp
              /\ \A l \in Leaves : ~EnvCovers(l) => Now(l) = Before(l)
              /\ cfg = loadFromEnv(cfgBefore, p).v
              /\ err.cause = loadFromEnv(cfgBefore, p).err.cause

\* config.yaml exists at both default paths; only ./config.yaml was read, its
\* Port is in the struct and the Last of ./config/config.yaml is not
C9_Witness ==
    /\ Loaded
    /\ p.paths = <<".", "./config">> /\ p.name = "config"
    /\ Present = {1, 2}
    /\ disk[FileAt(1)].doc = DocA /\ ~Broken(disk[FileAt(1)])
    /\ disk[FileAt(2)].doc = DocB /\ ~Broken(disk[FileAt(2)])
    /\ FilesRead = <<FileAt(1)>>
    /\ DOMAIN env = {}
    /\ err = NoError
    /\ Now(<<2>>) = Small64(42)
    /\ Now(<<6>>) = Zero64

====
